---- MODULE Spec2Model ----
(***************************************************************************)
(* Pilet / host package-metadata resolution (piral-cli, common/package.ts) *)
(* and the SystemJS pilet loader (piral-base, loaders/v2/index.ts).        *)
(*                                                                         *)
(* One run of the model executes one of the exported operations, chosen in *)
(* Init together with its inputs:                                          *)
(*   "info"   getPiletsInfo                                                *)
(*   "patch"  patchPiletPackage                                            *)
(*   "root"   retrievePiralRoot                                            *)
(*   "files"  getFileStats followed by copyPiralFiles                      *)
(*   "loader" loader (v2)                                                  *)
(* JavaScript values are modelled as follows: an object is a function from *)
(* its own keys to values, an array is a sequence, undefined / true /      *)
(* false are the tagged strings below, a path is a sequence of segments.   *)
(***************************************************************************)
EXTENDS Naturals, Sequences, FiniteSets, Bags, TLC

VARIABLES op, gi, pp, rr, fx, ld

vars == <<op, gi, pp, rr, fx, ld>>

\* ------------------------------------------------------------ bounds

\* The longest entry hint, in segments.
MaxHintLen == 2

\* The most template file declarations of one call.
MaxFiles == 2

\* ------------------------------------------------------------ JS values

Undefined == "<undefined>"
JsTrue == "<true>"
JsFalse == "<false>"
EmptyObject == [k \in {} |-> Undefined]

\* JS truthiness of the values the model uses.
Truthy(v) == v \notin {Undefined, JsFalse, ""}

\* typeof v === 'string'
IsString(v) == v \notin {Undefined, JsTrue, JsFalse}

\* o[k] for an object o: undefined when k is no own key.
Get(o, k) == IF k \in DOMAIN o THEN o[k] ELSE Undefined

\* a || b
OrElse(a, b) == IF Truthy(a) THEN a ELSE b

\* { ...a, ...b }
Spread(a, b) == [k \in (DOMAIN a) \cup (DOMAIN b) |-> IF k \in DOMAIN b THEN b[k] ELSE a[k]]

\* The order in which Object.keys lists the package names the model uses.
KeyOrder == <<"react", "typescript", "shared-lib", "my-pilet", "piral-cli">>

InDomain(o, k) == k \in DOMAIN o

\* Object.keys(o)
Keys(o) == SelectSeq(KeyOrder, LAMBDA k : InDomain(o, k))

Range(s) == {s[i] : i \in 1..Len(s)}

Count(s, x) == Cardinality({i \in 1..Len(s) : s[i] = x})

\* ------------------------------------------------------------ getPiletsInfo

\* The fields getPiletsInfo destructures, with their defaults.
InfoFields == {"files", "externals", "scripts", "validators", "devDependencies",
               "preScaffold", "postScaffold", "preUpgrade", "postUpgrade"}

InfoDefault(f) ==
  CASE f \in {"files", "externals"} -> <<>>
    [] f \in {"scripts", "validators", "devDependencies"} -> EmptyObject
    [] OTHER -> ""

\* piralInfo.pilets || {}
PiletsBlock(piralInfo) == IF "pilets" \in DOMAIN piralInfo THEN piralInfo.pilets ELSE EmptyObject

getPiletsInfo(piralInfo) ==
  LET block == PiletsBlock(piralInfo)
  IN  [f \in InfoFields |-> IF f \in DOMAIN block THEN block[f] ELSE InfoDefault(f)]

\* The records the repository's own test expects of getPiletsInfo.
TestEmptyPiletsInfo ==
  [files |-> <<>>, template |-> "default", scripts |-> EmptyObject, validators |-> EmptyObject,
   devDependencies |-> EmptyObject, preScaffold |-> "", postScaffold |-> "",
   packageOverrides |-> EmptyObject, preUpgrade |-> "", postUpgrade |-> ""]

TestPiralInfo ==
  [pilets |-> [files |-> <<"foo.tgz", "foo2.tgz">>, template |-> "default", scripts |-> EmptyObject,
               validators |-> EmptyObject, devDependencies |-> EmptyObject, preScaffold |-> "",
               packageOverrides |-> EmptyObject, postScaffold |-> "", preUpgrade |-> "",
               postUpgrade |-> ""]]

\* The fields a manifest's pilets block may carry in the model, and a
\* non-default value for each.
BlockFields == InfoFields \cup {"template", "packageOverrides"}

BlockValue(f) ==
  CASE f = "files" -> <<"foo.tgz", "foo2.tgz">>
    [] f = "externals" -> <<"shared-lib">>
    [] f = "scripts" -> [build |-> "npm run build-pilet"]
    [] f = "validators" -> [stays |-> "small"]
    [] f = "devDependencies" -> [typescript |-> JsTrue]
    [] f = "template" -> "default"
    [] f = "packageOverrides" -> EmptyObject
    [] OTHER -> "echo hook"

InfoInputs ==
  {EmptyObject, TestPiralInfo}
    \cup {[pilets |-> [f \in S |-> BlockValue(f)]] : S \in SUBSET BlockFields}

GiIdle == [pc |-> "idle", piralInfo |-> EmptyObject, result |-> EmptyObject]

InitInfo ==
  /\ op = "info"
  /\ \E m \in InfoInputs : gi = [pc |-> "start", piralInfo |-> m, result |-> EmptyObject]

CallGetPiletsInfo ==
  /\ op = "info"
  /\ gi.pc = "start"
  /\ gi' = [gi EXCEPT !.pc = "done", !.result = getPiletsInfo(gi.piralInfo)]
  /\ UNCHANGED <<op, pp, rr, fx, ld>>

\* ------------------------------------------------------------ patchPiletPackage

cliVersion == "0.9.9"

\* PiletLanguage, and "none" for a call without a language.
Languages == {"none", "ts", "js"}

\* getDevDependencies(language): the baseline tooling of a language.
getDevDependencies(language) ==
  IF language = "ts" THEN [typescript |-> "^4.0.0"] ELSE EmptyObject

\* piralInfo.dependencies || {}, piralInfo.devDependencies || {}
OrElse0(o, k) == IF k \in DOMAIN o THEN o[k] ELSE EmptyObject

\* The value getDependencyVersion selects before the fallback.
SelectedVersion(name, devDependencies, allDependencies) ==
  LET version == Get(devDependencies, name)
  IN  IF IsString(version) THEN version
      ELSE IF version = JsTrue THEN Get(allDependencies, name)
      ELSE Undefined

\* getDependencyVersion: the version it returns and the warnings it logs.
getDependencyVersion(name, devDependencies, allDependencies) ==
  LET selected == SelectedVersion(name, devDependencies, allDependencies)
  IN  [version |-> OrElse(selected, "latest"),
       warned |-> IF ~Truthy(selected) THEN <<name>> ELSE <<>>]

\* The language layer: Object.keys(typeDependencies).reduce(...)
RECURSIVE TypeLayer(_, _, _, _)
TypeLayer(keys, typeDependencies, allDependencies, deps) ==
  IF keys = <<>> THEN deps
  ELSE LET name == Head(keys)
       IN  TypeLayer(Tail(keys), typeDependencies, allDependencies,
                     Spread(deps, (name :> OrElse(Get(allDependencies, name), typeDependencies[name]))))

\* The pilets.devDependencies layer: Object.keys(info.devDependencies).reduce(...)
\* acc is [deps, warnings].
RECURSIVE DevLayer(_, _, _, _)
DevLayer(keys, devDependencies, allDependencies, acc) ==
  IF keys = <<>> THEN acc
  ELSE LET name == Head(keys)
           r == getDependencyVersion(name, devDependencies, allDependencies)
       IN  DevLayer(Tail(keys), devDependencies, allDependencies,
                    [deps |-> Spread(acc.deps, (name :> r.version)),
                     warnings |-> acc.warnings \o r.warned])

\* The version an external gets: piralDependencies[name] || 'latest'.
ExternalVersion(name, piralDependencies) == OrElse(Get(piralDependencies, name), "latest")

\* The externals layer: externals.reduce(...)
RECURSIVE ExternalLayer(_, _, _)
ExternalLayer(externals, piralDependencies, deps) ==
  IF externals = <<>> THEN deps
  ELSE LET name == Head(externals)
       IN  ExternalLayer(Tail(externals), piralDependencies,
                         Spread(deps, (name :> ExternalVersion(name, piralDependencies))))

\* ^${v}
Caret(v) == IF v = "0.9.9" THEN "^0.9.9" ELSE "^?"

\* [name]: ${version || piralInfo.version}, 'piral-cli': ^${cliVersion}
OwnLayer(name, version, piralInfo) ==
  Spread((name :> OrElse(version, Get(piralInfo, "version"))), ("piral-cli" :> Caret(cliVersion)))

\* The spread with the forced entries first: host entries override them.
MergeLayers_HostWins(l1, l2, l3, l4) == Spread(Spread(Spread(l4, l1), l2), l3)

\* The spread that builds devDependencies out of the four layers.
MergeLayers(l1, l2, l3, l4) == Spread(Spread(Spread(l1, l2), l3), l4)

\* externals.reduce(deps[name] = '*')
RECURSIVE PeerExternals(_, _)
PeerExternals(externals, deps) ==
  IF externals = <<>> THEN deps
  ELSE PeerExternals(Tail(externals), Spread(deps, (Head(externals) :> "*")))

SharedPeers == {"@dbeining/react-atom", "@libre/atom", "history", "react", "react-dom",
                "react-router", "react-router-dom", "tslib", "path-to-regexp"}

\* The patch patchPiletPackage computes, with the warnings logged on the way.
PiletPatch(name, version, piralInfo, language) ==
  LET piralDependencies == OrElse0(piralInfo, "dependencies")
      piralDevDependencies == OrElse0(piralInfo, "devDependencies")
      allDependencies == Spread(piralDependencies, piralDevDependencies)
      typeDependencies == IF language # "none" THEN getDevDependencies(language) ELSE EmptyObject
      info == getPiletsInfo(piralInfo)
      externals == info.externals
      l1 == TypeLayer(Keys(typeDependencies), typeDependencies, allDependencies, EmptyObject)
      l2 == DevLayer(Keys(info.devDependencies), info.devDependencies, allDependencies,
                     [deps |-> EmptyObject, warnings |-> <<>>])
      l3 == ExternalLayer(externals, piralDependencies, EmptyObject)
      l4 == OwnLayer(name, version, piralInfo)
  IN  [piral |-> Spread([comment |-> "Keep this section to allow running piral upgrade.",
                         name |-> name, version |-> Get(piralInfo, "version"),
                         tooling |-> cliVersion], info),
       devDependencies |-> MergeLayers(l1, l2.deps, l3, l4),
       peerDependencies |->
         Spread(Spread(PeerExternals(externals, EmptyObject), [k \in SharedPeers |-> "*"]),
                (name :> "*")),
       scripts |-> Spread([k \in {"debug-pilet", "build-pilet", "upgrade-pilet"} |->
                              CASE k = "debug-pilet" -> "pilet debug"
                                [] k = "build-pilet" -> "pilet build"
                                [] OTHER -> "pilet upgrade"],
                          info.scripts),
       warnings |-> l2.warnings,
       files |-> info.files]

\* updateExistingJson(root, 'package.json', patch): the patch merged into the file.
updateExistingJson(manifest, patch) == Spread(manifest, patch)

HostDependencies ==
  {[k \in S |-> "2.1.0"] : S \in {{}, {"shared-lib"}, {"shared-lib", "typescript"}}}

HostDevDependencies ==
  {[k \in S |-> "3.9.0"] : S \in {{}, {"shared-lib", "typescript"}}}

PiletsExternals == {<<>>, <<"shared-lib">>, <<"shared-lib", "my-pilet">>, <<"typescript", "shared-lib">>}

\* pilets.devDependencies: name -> version string | true, and what a manifest
\* may hold instead (an empty string, false).
PiletsDevValues == {"1.5.0", "", JsTrue, JsFalse}

PiletsDevDependencies ==
  {EmptyObject, ("piral-cli" :> "1.5.0")}
    \cup {("shared-lib" :> v) : v \in PiletsDevValues}
    \cup {("typescript" :> v) : v \in {"1.5.0", JsTrue}}
    \cup {("shared-lib" :> v) @@ ("typescript" :> w) : v \in PiletsDevValues, w \in {"1.5.0", JsTrue}}

HostManifests ==
  {[version |-> "0.9.0"]}
    \cup {[version |-> "0.9.0", dependencies |-> d, devDependencies |-> dd,
           pilets |-> [externals |-> e, devDependencies |-> pd]] :
             d \in HostDependencies, dd \in HostDevDependencies,
             e \in PiletsExternals, pd \in PiletsDevDependencies}
    \cup {[version |-> "0.9.0", dependencies |-> [k \in {"shared-lib"} |-> "2.1.0"],
           pilets |-> [externals |-> <<"shared-lib">>]]}

PiletNames == {"my-pilet", "piral-cli"}

\* The version argument; "" stands for a call without one.
PiletVersions == {"1.0.0", ""}

PpIdle == [pc |-> "idle", name |-> "", version |-> "", piralInfo |-> EmptyObject,
           language |-> "none", manifest |-> EmptyObject, patch |-> EmptyObject,
           warnings |-> <<>>, result |-> <<>>]

InitPatch ==
  /\ op = "patch"
  /\ \E n \in PiletNames, v \in PiletVersions, m \in HostManifests, l \in Languages :
       pp = [PpIdle EXCEPT !.pc = "start", !.name = n, !.version = v, !.piralInfo = m,
                           !.language = l,
                           !.manifest = [name |-> n, description |-> "a pilet"]]

patchPiletPackage ==
  /\ op = "patch"
  /\ pp.pc = "start"
  /\ LET r == PiletPatch(pp.name, pp.version, pp.piralInfo, pp.language)
         patch == [piral |-> r.piral, devDependencies |-> r.devDependencies,
                   peerDependencies |-> r.peerDependencies, scripts |-> r.scripts]
     IN  pp' = [pp EXCEPT !.pc = "done", !.patch = patch, !.warnings = r.warnings,
                          !.manifest = updateExistingJson(pp.manifest, patch),
                          !.result = r.files]
  /\ UNCHANGED <<op, gi, rr, fx, ld>>

\* ------------------------------------------------------------ paths

\* A path is a sequence of segments; an absolute path starts with the
\* segment "/". The characters of a segment, split at its dots:
Tokens(seg) ==
  CASE seg = "index.html" -> <<"index", ".", "html">>
    [] seg = "site.html" -> <<"site", ".", "html">>
    [] seg = ".html" -> <<".", "html">>
    [] seg = "package.json" -> <<"package", ".", "json">>
    [] seg = "a.txt" -> <<"a", ".", "txt">>
    [] seg = "b.txt" -> <<"b", ".", "txt">>
    [] seg = "c.txt" -> <<"c", ".", "txt">>
    [] seg = "." -> <<".">>
    [] seg = ".." -> <<".", ".">>
    [] OTHER -> <<seg>>

HtmlExt == <<".", "html">>

\* path.normalize on segments: "." is dropped, ".." removes the segment
\* before it (and is dropped at the root, kept at the start of a relative path).
RECURSIVE NormalizeInto(_, _)
NormalizeInto(done, rest) ==
  IF rest = <<>> THEN done
  ELSE LET s == Head(rest)
       IN  IF s = "." \/ (s = "/" /\ done # <<>>) THEN NormalizeInto(done, Tail(rest))
           ELSE IF s = ".."
             THEN IF done = <<>> \/ done[Len(done)] = ".."
                    THEN NormalizeInto(Append(done, s), Tail(rest))
                  ELSE IF done = <<"/">> THEN NormalizeInto(done, Tail(rest))
                  ELSE NormalizeInto(SubSeq(done, 1, Len(done) - 1), Tail(rest))
           ELSE NormalizeInto(Append(done, s), Tail(rest))

Normalize(p) == LET n == NormalizeInto(<<>>, p) IN IF n = <<>> THEN <<".">> ELSE n

\* path.join(a, b)
join(a, b) == Normalize(a \o b)

IsAbsolute(p) == p # <<>> /\ p[1] = "/"

\* path.resolve(a, b) for an absolute a
resolve(a, b) == IF IsAbsolute(b) THEN Normalize(b) ELSE Normalize(a \o b)

\* path.basename(p)
basename(p) == IF p = <<>> \/ p = <<"/">> THEN "" ELSE p[Len(p)]

\* path.dirname(p)
dirname(p) ==
  IF p = <<"/">> THEN p
  ELSE IF Len(p) <= 1 THEN <<".">>
  ELSE SubSeq(p, 1, Len(p) - 1)

\* path.extname(p): from the last dot of the last segment, empty when that
\* segment has no dot, starts with its only dot, or is "..".
extname(p) ==
  LET t == Tokens(basename(p))
      dots == {i \in 1..Len(t) : t[i] = "."}
      last == CHOOSE i \in dots : \A j \in dots : j <= i
  IN  IF dots = {} THEN <<>>
      ELSE IF last = 1 \/ t = <<".", ".">> THEN <<>>
      ELSE SubSeq(t, last, Len(t))

\* path.relative(from, to) for normalized paths
RECURSIVE CommonLen(_, _)
CommonLen(a, b) ==
  IF a = <<>> \/ b = <<>> \/ Head(a) # Head(b) THEN 0 ELSE 1 + CommonLen(Tail(a), Tail(b))

relative(from, to) ==
  LET n == CommonLen(from, to)
  IN  [i \in 1..(Len(from) - n) |-> ".."] \o SubSeq(to, n + 1, Len(to))

\* ------------------------------------------------------------ retrievePiralRoot

\* The extension compared without its dot: extname(rootDir) !== 'html'
NeedsManifest_NoDot(rootDir) == extname(rootDir) # <<"html">>

\* extname(rootDir) !== '.html'
NeedsManifest(rootDir) == extname(rootDir) # HtmlExt

\* basename(rootDir) === 'package.json' ? rootDir : join(rootDir, 'package.json')
PackageNameOf(rootDir) ==
  IF basename(rootDir) = "package.json" THEN rootDir ELSE join(rootDir, <<"package.json">>)

RrIdle == [pc |-> "idle", baseDir |-> <<>>, entry |-> <<>>, exists |-> FALSE, app |-> Undefined,
           calls |-> <<>>, logs |-> <<>>, outcome |-> "pending", result |-> <<>>]

HintSegments == {"app", "index.html", ".html", "package.json", ".", ".."}

EntryHints == UNION {[1..n -> HintSegments] : n \in 0..MaxHintLen}

BaseDirs == {<<"/", "proj">>, <<"/", "proj", "site.html">>}

\* The app field of the manifest: missing, empty, or an entry file.
AppFields == {Undefined, "", "index.html"}

InitRoot ==
  /\ op = "root"
  /\ \E b \in BaseDirs, e \in EntryHints, x \in BOOLEAN, a \in AppFields :
       rr = [RrIdle EXCEPT !.pc = "start", !.baseDir = b, !.entry = e, !.exists = x, !.app = a]

\* retrievePiralRoot up to its first suspension (await checkExists) or its return.
RootStart ==
  /\ op = "root"
  /\ rr.pc = "start"
  /\ LET rootDir == join(rr.baseDir, rr.entry)
     IN  IF NeedsManifest(rootDir)
           THEN rr' = [rr EXCEPT !.pc = "checkExists",
                                 !.calls = Append(@, <<"checkExists", PackageNameOf(rootDir)>>)]
           ELSE rr' = [rr EXCEPT !.pc = "done", !.outcome = "fulfilled", !.result = rootDir]
  /\ UNCHANGED <<op, gi, pp, fx, ld>>

\* retrievePiralRoot after checkExists has answered.
RootResume ==
  /\ op = "root"
  /\ rr.pc = "checkExists"
  /\ LET rootDir == join(rr.baseDir, rr.entry)
         packageName == PackageNameOf(rootDir)
     IN  IF ~rr.exists
           THEN rr' = [rr EXCEPT !.pc = "done", !.outcome = "rejected",
                                 !.logs = Append(@, <<"Missing package.json", rootDir>>)]
         ELSE IF ~Truthy(rr.app)
           THEN rr' = [rr EXCEPT !.pc = "done", !.outcome = "rejected",
                                 !.calls = Append(@, <<"require", packageName>>),
                                 !.logs = Append(@, <<"Missing field app", packageName>>)]
         ELSE rr' = [rr EXCEPT !.pc = "done", !.outcome = "fulfilled",
                               !.calls = Append(@, <<"require", packageName>>),
                               !.result = join(dirname(packageName), <<rr.app>>)]
  /\ UNCHANGED <<op, gi, pp, fx, ld>>

\* ------------------------------------------------------------ file sets

root == <<"/", "work">>

piralName == "sample-piral"

getPiralPath(r, name) == resolve(r, <<"node_modules", name>>)

\* The files of the installed Piral instance, relative to its package directory,
\* with their contents.
SourceTree ==
  (<<"tpl", "a.txt">> :> "A") @@ (<<"tpl", "sub", "b.txt">> :> "B") @@ (<<"c.txt">> :> "C")

SourceFiles == [p \in {getPiralPath(root, piralName) \o q : q \in DOMAIN SourceTree} |->
                  SourceTree[SubSeq(p, Len(getPiralPath(root, piralName)) + 1, Len(p))]]

\* The order in which a directory listing names the files.
ListingOrder ==
  <<getPiralPath(root, piralName) \o <<"c.txt">>,
    getPiralPath(root, piralName) \o <<"tpl", "a.txt">>,
    getPiralPath(root, piralName) \o <<"tpl", "sub", "b.txt">>>>

IsPrefix(d, p) == Len(d) <= Len(p) /\ SubSeq(p, 1, Len(d)) = d

\* checkIsDirectory(path): some file lies below it.
checkIsDirectory(fs, path) == \E p \in DOMAIN fs : Len(p) > Len(path) /\ IsPrefix(path, p)

Matches(fs, dir, pattern, p) ==
  /\ p \in DOMAIN fs
  /\ IsPrefix(dir, p)
  /\ IF pattern = "*" THEN Len(p) = Len(dir) + 1 ELSE Len(p) > Len(dir)

\* matchFiles(dir, pattern) for the patterns '*' and '**/*'.
matchFiles(fs, dir, pattern) == SelectSeq(ListingOrder, LAMBDA p : Matches(fs, dir, pattern, p))

\* getHash(path): the fingerprint of the content, undefined for a missing file.
getHash(fs, path) == IF path \in DOMAIN fs THEN <<"sha1", fs[path]>> ELSE <<Undefined>>

\* const { from, to, deep = false } = typeof file === 'string' ? {...} : file
Destructure(file) ==
  IF file.kind = "string" THEN [from |-> file.path, to |-> file.path, deep |-> FALSE]
  ELSE [from |-> file.from, to |-> file.to,
        deep |-> IF "deep" \in DOMAIN file THEN file.deep ELSE FALSE]

\* The patterns swapped: deep ? '*' : '**/*'
PatternOf_Swapped(deep) == IF deep THEN "*" ELSE "**/*"

\* deep ? '**/*' : '*'
PatternOf(deep) == IF deep THEN "**/*" ELSE "*"

SourcePathOf(r, name, file) == join(getPiralPath(r, name), Destructure(file).from)

TargetPathOf(r, file) == resolve(r, Destructure(file).to)

\* files.map(file => ({ sourcePath: file, targetPath: resolve(targetPath, relative(sourcePath, file)) }))
MapMatched(files, sourcePath, targetPath) ==
  [i \in 1..Len(files) |->
     [sourcePath |-> files[i],
      targetPath |-> resolve(targetPath, relative(sourcePath, files[i]))]]

\* getFilesOf once matchFiles has answered (the source is a directory).
ExpandDirectory(fs, r, name, file) ==
  LET sourcePath == SourcePathOf(r, name, file)
  IN  MapMatched(matchFiles(fs, sourcePath, PatternOf(Destructure(file).deep)),
                 sourcePath, TargetPathOf(r, file))

\* getFilesOf for a source that is no directory.
SinglePair(r, name, file) ==
  <<[sourcePath |-> SourcePathOf(r, name, file), targetPath |-> TargetPathOf(r, file)]>>

\* getFilesOf(root, name, file), when nothing fails.
getFilesOf(fs, r, name, file) ==
  IF checkIsDirectory(fs, SourcePathOf(r, name, file))
    THEN ExpandDirectory(fs, r, name, file)
    ELSE SinglePair(r, name, file)

\* The template file declarations of the model: a file given as a string, a
\* directory without and with deep, and a file copied onto a name the
\* directory also yields.
Locations ==
  {[kind |-> "string", path |-> <<"c.txt">>],
   [kind |-> "object", from |-> <<"tpl">>, to |-> <<"out">>],
   [kind |-> "object", from |-> <<"tpl">>, to |-> <<"out">>, deep |-> TRUE],
   [kind |-> "object", from |-> <<"c.txt">>, to |-> <<"out", "a.txt">>, deep |-> FALSE]}

FileLists == UNION {[1..n -> Locations] : n \in 0..MaxFiles}

\* What the pilet's directory holds before the call: nothing, out/a.txt as the
\* template has it, or out/a.txt edited and c.txt as the template has it.
TargetTrees ==
  {EmptyObject,
   (root \o <<"out", "a.txt">>) :> "A",
   ((root \o <<"out", "a.txt">>) :> "X") @@ ((root \o <<"c.txt">>) :> "C")}

ForceOverwrite == {"no", "prompt", "yes"}

\* ------------------------------------------------------------ getFileStats

FxIdle == [pc |-> "idle", files |-> <<>>, fs |-> SourceFiles, fs0 |-> SourceFiles,
           stats |-> "idle", tasks |-> <<>>, results |-> <<>>,
           copy |-> "idle", force |-> "no", originalFiles |-> <<>>,
           cf |-> 0, cpc |-> "idle", csub |-> <<>>, ck |-> 0,
           issued |-> <<>>, inflight |-> {}, completed |-> {}]

InitFiles ==
  /\ op = "files"
  /\ \E l \in FileLists, t \in TargetTrees :
       fx = [FxIdle EXCEPT !.pc = "start", !.files = l, !.fs = t @@ SourceFiles,
                           !.fs0 = t @@ SourceFiles]

\* A per-file task of getFileStats holding the subfiles it resolved: it goes on
\* to hash the first of them, or is finished when there is none.
TaskWith(subfiles) ==
  [pc |-> IF subfiles = <<>> THEN "done" ELSE "hashSource", subfiles |-> subfiles, k |-> 1,
   sourceHash |-> <<Undefined>>]

\* getFileStats is called: every task runs to its first suspension, the
\* checkIsDirectory of getFilesOf.
StatsCall ==
  /\ op = "files"
  /\ fx.pc = "start"
  /\ fx' = [fx EXCEPT !.pc = "stats", !.stats = "running", !.results = <<>>,
                      !.tasks = [i \in 1..Len(fx.files) |->
                                   [pc |-> "isDirectory", subfiles |-> <<>>, k |-> 1,
                                    sourceHash |-> <<Undefined>>]]]
  /\ UNCHANGED <<op, gi, pp, rr, ld>>

\* checkIsDirectory answers task i.
TaskIsDirectory(i) ==
  /\ op = "files"
  /\ i \in 1..Len(fx.tasks)
  /\ fx.tasks[i].pc = "isDirectory"
  /\ fx' = [fx EXCEPT !.tasks[i] =
              IF checkIsDirectory(fx.fs, SourcePathOf(root, piralName, fx.files[i]))
                THEN [@ EXCEPT !.pc = "matchFiles"]
                ELSE TaskWith(SinglePair(root, piralName, fx.files[i]))]
  /\ UNCHANGED <<op, gi, pp, rr, ld>>

\* matchFiles answers task i, or fails.
TaskMatchFiles(i) ==
  /\ op = "files"
  /\ i \in 1..Len(fx.tasks)
  /\ fx.tasks[i].pc = "matchFiles"
  /\ \/ fx' = [fx EXCEPT !.tasks[i] = TaskWith(ExpandDirectory(fx.fs, root, piralName, fx.files[i]))]
     \/ fx' = [fx EXCEPT !.tasks[i].pc = "failed"]
  /\ UNCHANGED <<op, gi, pp, rr, ld>>

\* getHash(sourcePath) answers task i.
TaskHashSource(i) ==
  /\ op = "files"
  /\ i \in 1..Len(fx.tasks)
  /\ fx.tasks[i].pc = "hashSource"
  /\ LET t == fx.tasks[i]
     IN  fx' = [fx EXCEPT !.tasks[i].pc = "hashTarget",
                          !.tasks[i].sourceHash = getHash(fx.fs, t.subfiles[t.k].sourcePath)]
  /\ UNCHANGED <<op, gi, pp, rr, ld>>

\* The FileInfo pushed for a subfile.
FileInfoOf(targetPath, sourceHash, targetHash) ==
  [path |-> targetPath, hash |-> targetHash, changed |-> (sourceHash # targetHash)]

\* getHash(targetPath) answers task i: the FileInfo is pushed and the task
\* goes on with its next subfile.
TaskHashTarget(i) ==
  /\ op = "files"
  /\ i \in 1..Len(fx.tasks)
  /\ fx.tasks[i].pc = "hashTarget"
  /\ LET t == fx.tasks[i]
         targetPath == t.subfiles[t.k].targetPath
     IN  fx' = [fx EXCEPT !.results = Append(@, FileInfoOf(targetPath, t.sourceHash,
                                                             getHash(fx.fs, targetPath))),
                          !.tasks[i].k = t.k + 1,
                          !.tasks[i].pc = IF t.k < Len(t.subfiles) THEN "hashSource" ELSE "done"]
  /\ UNCHANGED <<op, gi, pp, rr, ld>>

\* Promise.race in place of Promise.all: fulfilled with the first task.
JoinReady_Race(tasks) == \E i \in 1..Len(tasks) : tasks[i].pc = "done"

\* Promise.all: fulfilled once every task is.
JoinReady(tasks) == \A i \in 1..Len(tasks) : tasks[i].pc = "done"

\* Promise.all is fulfilled and getFileStats returns the results.
StatsJoin ==
  /\ op = "files"
  /\ fx.stats = "running"
  /\ JoinReady(fx.tasks)
  /\ fx' = [fx EXCEPT !.stats = "fulfilled"]
  /\ UNCHANGED <<op, gi, pp, rr, ld>>

\* Promise.all is rejected by the first task that fails, and getFileStats with it.
StatsReject ==
  /\ op = "files"
  /\ fx.stats = "running"
  /\ \E i \in 1..Len(fx.tasks) : fx.tasks[i].pc = "failed"
  /\ fx' = [fx EXCEPT !.stats = "rejected"]
  /\ UNCHANGED <<op, gi, pp, rr, ld>>

\* ------------------------------------------------------------ copyPiralFiles

\* The overwrite test with the negation lost: some(m => m.path === targetPath && m.changed)
Overwrite_Inverted(originalFiles, targetPath) ==
  \E j \in 1..Len(originalFiles) :
    originalFiles[j].path = targetPath /\ originalFiles[j].changed

\* originalFiles.some(m => m.path === targetPath && !m.changed)
Overwrite(originalFiles, targetPath) ==
  \E j \in 1..Len(originalFiles) :
    originalFiles[j].path = targetPath /\ ~originalFiles[j].changed

\* overwrite ? ForceOverwrite.yes : forceOverwrite
ForceFor(originalFiles, targetPath, forceOverwrite) ==
  IF Overwrite(originalFiles, targetPath) THEN "yes" ELSE forceOverwrite

\* The copy started and not awaited.
AwaitsCopy_Not == FALSE

\* The copy of a subfile is awaited before the loop goes on.
AwaitsCopy == TRUE

\* The loops of copyPiralFiles from the subfile c.ck of the file c.cf up to the
\* next suspension: a copy is issued and awaited, or the next file's
\* getFilesOf is awaited, or the function returns.
RECURSIVE CopyLoop(_)
CopyLoop(c) ==
  IF c.ck <= Len(c.csub)
    THEN LET sub == c.csub[c.ck]
             started == [c EXCEPT !.issued = Append(@, [sourcePath |-> sub.sourcePath,
                                                        targetPath |-> sub.targetPath,
                                                        force |-> ForceFor(c.originalFiles,
                                                                           sub.targetPath, c.force)]),
                                  !.inflight = @ \cup {Len(c.issued) + 1},
                                  !.ck = @ + 1]
         IN  IF AwaitsCopy THEN [started EXCEPT !.cpc = "copy"] ELSE CopyLoop(started)
  ELSE IF c.cf < Len(c.files)
    THEN [c EXCEPT !.cf = @ + 1, !.cpc = "isDirectory", !.csub = <<>>, !.ck = 1]
  ELSE [c EXCEPT !.cpc = "returned", !.copy = "fulfilled"]

\* copyPiralFiles is called, after a stats pass whose result it is given, or
\* without one (originalFiles defaults to []).
CopyCall ==
  /\ op = "files"
  /\ fx.copy = "idle"
  /\ \E force \in ForceOverwrite :
       \/ /\ fx.pc = "start"
          /\ fx' = CopyLoop([fx EXCEPT !.pc = "copy", !.copy = "running", !.force = force,
                                       !.originalFiles = <<>>, !.cf = 0, !.ck = 1])
       \/ /\ fx.pc = "stats"
          /\ fx.stats = "fulfilled"
          /\ fx' = CopyLoop([fx EXCEPT !.pc = "copy", !.copy = "running", !.force = force,
                                       !.originalFiles = fx.results, !.cf = 0, !.ck = 1])
  /\ UNCHANGED <<op, gi, pp, rr, ld>>

\* checkIsDirectory answers the getFilesOf of the current file.
CopyIsDirectory ==
  /\ op = "files"
  /\ fx.copy = "running"
  /\ fx.cpc = "isDirectory"
  /\ fx' = IF checkIsDirectory(fx.fs, SourcePathOf(root, piralName, fx.files[fx.cf]))
             THEN [fx EXCEPT !.cpc = "matchFiles"]
             ELSE CopyLoop([fx EXCEPT !.csub = SinglePair(root, piralName, fx.files[fx.cf]),
                                      !.ck = 1])
  /\ UNCHANGED <<op, gi, pp, rr, ld>>

\* matchFiles answers the getFilesOf of the current file, or fails and
\* copyPiralFiles rejects.
CopyMatchFiles ==
  /\ op = "files"
  /\ fx.copy = "running"
  /\ fx.cpc = "matchFiles"
  /\ \/ fx' = CopyLoop([fx EXCEPT !.csub = ExpandDirectory(fx.fs, root, piralName, fx.files[fx.cf]),
                                  !.ck = 1])
     \/ fx' = [fx EXCEPT !.cpc = "thrown", !.copy = "rejected"]
  /\ UNCHANGED <<op, gi, pp, rr, ld>>

\* copy(source, target, force): what the target directory may hold after a
\* copy that succeeds. ForceOverwrite.yes replaces the target, no keeps an
\* existing one, prompt leaves it to the user.
CopyOutcomes(fs, source, target, force) ==
  IF source \notin DOMAIN fs THEN {}
  ELSE LET written == (target :> fs[source]) @@ fs
       IN  IF force = "yes" \/ target \notin DOMAIN fs THEN {written}
           ELSE IF force = "no" THEN {fs}
           ELSE {fs, written}

\* The copy j settles: it succeeds and the loop goes on, or it fails and
\* copyPiralFiles rejects.
CopySettle(j) ==
  /\ op = "files"
  /\ j \in fx.inflight
  /\ LET c == fx.issued[j]
         awaited == fx.copy = "running" /\ fx.cpc = "copy"
     IN  \/ \E fs2 \in CopyOutcomes(fx.fs, c.sourcePath, c.targetPath, c.force) :
              LET done == [fx EXCEPT !.fs = fs2, !.inflight = @ \ {j}, !.completed = @ \cup {j}]
              IN  fx' = IF awaited THEN CopyLoop(done) ELSE done
         \/ fx' = [fx EXCEPT !.inflight = @ \ {j},
                             !.cpc = IF awaited THEN "thrown" ELSE @,
                             !.copy = IF awaited THEN "rejected" ELSE @]
  /\ UNCHANGED <<op, gi, pp, rr, ld>>

\* ------------------------------------------------------------ loader (v2)

\* System.has(name)
SystemHas(registry, name) == name \in DOMAIN registry

\* registerModule(name, () => System.import(url)): the name is bound to a
\* module that imports url when it is first required.
registerModule(registry, name, url) == (name :> url) @@ registry

Preloaded == "<preloaded>"

\* setBasePath(meta, link): the link to import.
setBasePath(meta, link) == link

\* The registration without its System.has test.
ShouldRegister_Always(registry, depName) == TRUE

\* if (!System.has(depName))
ShouldRegister(registry, depName) == ~SystemHas(registry, depName)

\* A loadSystemModule without its rejection handler: the rejection passes through.
loadSystemModule_Rethrow(source, outcome) ==
  IF outcome.ok
    THEN [state |-> "fulfilled", value |-> <<source, outcome.value>>, logs |-> <<>>]
    ELSE [state |-> "rejected", value |-> <<source, outcome.value>>, logs |-> <<>>]

\* loadSystemModule(source): what its promise settles to for an outcome of
\* System.import(source), and what is written to the console.
loadSystemModule(source, outcome) ==
  IF outcome.ok
    THEN [state |-> "fulfilled", value |-> <<source, outcome.value>>, logs |-> <<>>]
    ELSE [state |-> "fulfilled", value |-> <<source, EmptyObject>>,
          logs |-> <<<<"Failed to load SystemJS module", source, outcome.value>>>>]

\* ([_, app]) => ({ ...meta, ...app })
MergePilet(meta, value) == Spread(meta, value[2])

DepUrls == [n \in {"react", "shared-lib"} |->
              IF n = "react" THEN "https://cdn/react.js" ELSE "https://cdn/shared-lib.js"]

BaseMeta == [name |-> "my-pilet", version |-> "1.0.0", link |-> "https://cdn/my-pilet.js",
             spec |-> "v2"]

Metas ==
  {BaseMeta} \cup {BaseMeta @@ [dependencies |-> [n \in S |-> DepUrls[n]]] :
                     S \in SUBSET DOMAIN DepUrls}

Registries == {[n \in S |-> Preloaded] : S \in SUBSET DOMAIN DepUrls}

\* What the entry bundle may export.
ModuleExports == {EmptyObject, [setup |-> "function"], [setup |-> "function", name |-> "renamed"]}

ImportOutcomes ==
  {[ok |-> TRUE, value |-> e] : e \in ModuleExports} \cup {[ok |-> FALSE, value |-> "network error"]}

LdIdle == [pc |-> "idle", meta |-> BaseMeta, registry0 |-> EmptyObject, registry |-> EmptyObject,
           keys |-> <<>>, i |-> 1, link |-> "", registered |-> <<>>, imports |-> <<>>,
           required |-> {}, outcome |-> [ok |-> TRUE, value |-> EmptyObject],
           inner |-> [state |-> "pending"], promise |-> "none", result |-> EmptyObject,
           logs |-> <<>>]

InitLoader ==
  /\ op = "loader"
  /\ \E m \in Metas, r \in Registries :
       ld = [LdIdle EXCEPT !.pc = "start", !.meta = m, !.registry0 = r, !.registry = r]

\* loader(meta, config) is entered: deps and link are read.
LoaderCall ==
  /\ op = "loader"
  /\ ld.pc = "start"
  /\ LET hasDeps == "dependencies" \in DOMAIN ld.meta
         keys == IF hasDeps THEN Keys(ld.meta.dependencies) ELSE <<>>
     IN  ld' = [ld EXCEPT !.link = setBasePath(ld.meta, ld.meta.link),
                          !.keys = keys, !.i = 1,
                          !.pc = IF keys # <<>> THEN "register" ELSE "import"]
  /\ UNCHANGED <<op, gi, pp, rr, fx>>

\* One pass of the loop over Object.keys(deps).
LoaderRegister ==
  /\ op = "loader"
  /\ ld.pc = "register"
  /\ LET depName == ld.keys[ld.i]
         depUrl == ld.meta.dependencies[depName]
         last == ld.i = Len(ld.keys)
     IN  IF ShouldRegister(ld.registry, depName)
           THEN ld' = [ld EXCEPT !.registry = registerModule(@, depName, depUrl),
                                 !.registered = Append(@, depName),
                                 !.i = @ + 1,
                                 !.pc = IF last THEN "import" ELSE "register"]
           ELSE ld' = [ld EXCEPT !.i = @ + 1, !.pc = IF last THEN "import" ELSE "register"]
  /\ UNCHANGED <<op, gi, pp, rr, fx>>

\* loadSystemModule(link) starts System.import(link); loader returns the
\* pending promise.
LoaderImport ==
  /\ op = "loader"
  /\ ld.pc = "import"
  /\ ld' = [ld EXCEPT !.imports = Append(@, [url |-> ld.link, by |-> "loader"]),
                      !.promise = "pending", !.pc = "pending"]
  /\ UNCHANGED <<op, gi, pp, rr, fx>>

\* System.import(link) settles and the handlers of loadSystemModule run.
ImportSettle ==
  /\ op = "loader"
  /\ ld.pc = "pending"
  /\ \E o \in ImportOutcomes :
       LET r == loadSystemModule(ld.link, o)
       IN  ld' = [ld EXCEPT !.outcome = o, !.inner = r, !.logs = @ \o r.logs, !.pc = "merge"]
  /\ UNCHANGED <<op, gi, pp, rr, fx>>

\* The then of loader runs on the settled promise of loadSystemModule.
LoaderMerge ==
  /\ op = "loader"
  /\ ld.pc = "merge"
  /\ IF ld.inner.state = "fulfilled"
       THEN ld' = [ld EXCEPT !.promise = "fulfilled", !.pc = "done",
                             !.result = MergePilet(ld.meta, ld.inner.value)]
       ELSE ld' = [ld EXCEPT !.promise = "rejected", !.pc = "done"]
  /\ UNCHANGED <<op, gi, pp, rr, fx>>

\* Something requires a module the loader registered: its loader function
\* runs and imports the dependency's URL. This can only happen once the
\* synchronous part of loader has returned.
RequireModule(n) ==
  /\ op = "loader"
  /\ ld.pc \in {"pending", "merge", "done"}
  /\ n \in DOMAIN ld.registry
  /\ ld.registry[n] # Preloaded
  /\ n \notin ld.required
  /\ ld' = [ld EXCEPT !.required = @ \cup {n},
                      !.imports = Append(@, [url |-> ld.registry[n], by |-> "module"])]
  /\ UNCHANGED <<op, gi, pp, rr, fx>>

\* ------------------------------------------------------------ specification

Init ==
  \/ InitInfo /\ pp = PpIdle /\ rr = RrIdle /\ fx = FxIdle /\ ld = LdIdle
  \/ InitPatch /\ gi = GiIdle /\ rr = RrIdle /\ fx = FxIdle /\ ld = LdIdle
  \/ InitRoot /\ gi = GiIdle /\ pp = PpIdle /\ fx = FxIdle /\ ld = LdIdle
  \/ InitFiles /\ gi = GiIdle /\ pp = PpIdle /\ rr = RrIdle /\ ld = LdIdle
  \/ InitLoader /\ gi = GiIdle /\ pp = PpIdle /\ rr = RrIdle /\ fx = FxIdle

Next ==
  \/ CallGetPiletsInfo
  \/ patchPiletPackage
  \/ RootStart
  \/ RootResume
  \/ StatsCall
  \/ \E i \in 1..MaxFiles : TaskIsDirectory(i)
  \/ \E i \in 1..MaxFiles : TaskMatchFiles(i)
  \/ \E i \in 1..MaxFiles : TaskHashSource(i)
  \/ \E i \in 1..MaxFiles : TaskHashTarget(i)
  \/ StatsJoin
  \/ StatsReject
  \/ CopyCall
  \/ CopyIsDirectory
  \/ CopyMatchFiles
  \/ \E j \in fx.inflight : CopySettle(j)
  \/ LoaderCall
  \/ LoaderRegister
  \/ LoaderImport
  \/ ImportSettle
  \/ LoaderMerge
  \/ \E n \in DOMAIN DepUrls : RequireModule(n)

Spec == Init /\ [][Next]_vars

\* ------------------------------------------------------------ properties: loader

\* The import of the entry URL was rejected and loader's promise has settled.
LoaderDegraded == op = "loader" /\ ld.pc = "done" /\ ~ld.outcome.ok

\* C1: whatever the outcome of the import of the entry URL, the promise loader
\* returns is never rejected and is fulfilled once the handlers have run (after
\* the import settles the merge step is always enabled); when the import
\* rejects, the error is logged with the source URL and the fulfilled value
\* holds every own field of meta with meta's value.
C1_LoaderNeverRejects ==
  op = "loader" =>
    /\ ld.promise # "rejected"
    /\ ld.pc = "merge" => ENABLED LoaderMerge
    /\ ld.pc = "done" => ld.promise = "fulfilled"
    /\ (ld.pc \in {"merge", "done"} /\ ~ld.outcome.ok) =>
         ld.logs = <<<<"Failed to load SystemJS module", ld.meta.link, ld.outcome.value>>>>
    /\ (ld.pc \in {"merge", "done"} /\ ld.outcome.ok) => ld.logs = <<>>
    /\ LoaderDegraded =>
         \A f \in DOMAIN ld.meta : f \in DOMAIN ld.result /\ ld.result[f] = ld.meta[f]
    /\ LoaderDegraded => DOMAIN ld.result = DOMAIN ld.meta

C1_Witness == LoaderDegraded /\ ld.promise = "fulfilled" /\ "dependencies" \in DOMAIN ld.meta

\* The dependency names the meta declares.
Declared == IF "dependencies" \in DOMAIN ld.meta THEN DOMAIN ld.meta.dependencies ELSE {}

\* The synchronous part of loader is over.
Returned == ld.pc \in {"pending", "merge", "done"}

LoaderImports == {k \in 1..Len(ld.imports) : ld.imports[k].by = "loader"}

\* C10: in one loader call every declared dependency that was not in the
\* registry is registered exactly once with a lazy import of its URL, a name
\* already registered is never registered again or replaced, the loader
\* itself imports nothing but the entry URL, once, after all registrations,
\* and a dependency URL is imported only when its module is required; a meta
\* without dependencies registers nothing.
C10_LazyRegistration ==
  op = "loader" =>
    /\ \A n \in DOMAIN ld.registry0 :
         n \in DOMAIN ld.registry /\ ld.registry[n] = ld.registry0[n] /\ Count(ld.registered, n) = 0
    /\ \A n \in DOMAIN DepUrls : Count(ld.registered, n) <= 1
    /\ Range(ld.registered) \subseteq Declared \ DOMAIN ld.registry0
    /\ (Returned \/ ld.pc = "import") =>
         \A n \in Declared \ DOMAIN ld.registry0 :
           Count(ld.registered, n) = 1 /\ ld.registry[n] = ld.meta.dependencies[n]
    /\ \A k \in LoaderImports : ld.imports[k].url = ld.meta.link /\ k = 1
    /\ LoaderImports # {} => Returned
    /\ Returned => Cardinality(LoaderImports) = 1
    /\ \A k \in 1..Len(ld.imports) :
         ld.imports[k].by = "module" =>
           \E n \in ld.required : n \in Range(ld.registered) /\ ld.imports[k].url = ld.meta.dependencies[n]
    /\ "dependencies" \notin DOMAIN ld.meta => ld.registered = <<>> /\ ld.registry = ld.registry0

C10_Witness ==
  /\ op = "loader"
  /\ ld.pc = "done"
  /\ Len(ld.registered) = 1
  /\ Cardinality(Declared) = 2
  /\ ld.required # {}

\* ------------------------------------------------------------ properties: getPiletsInfo

\* The fields of PiletsInfo, as the test of getPiletsInfo lists them.
PiletsInfoFields == DOMAIN TestEmptyPiletsInfo

\* C7: getPiletsInfo populates every PiletsInfo field for every manifest; a
\* pilets block that specifies every field is returned strictly equal (nothing
\* added, dropped or changed), and the empty manifest gives strictly the
\* all-defaults record.
C7_TotalAndNormalising ==
  (op = "info" /\ gi.pc = "done") =>
    /\ \A f \in PiletsInfoFields : f \in DOMAIN gi.result
    /\ PiletsInfoFields \subseteq DOMAIN PiletsBlock(gi.piralInfo) => gi.result = PiletsBlock(gi.piralInfo)
    /\ gi.piralInfo = EmptyObject => gi.result = TestEmptyPiletsInfo

\* ------------------------------------------------------------ properties: patchPiletPackage

HostDeps == OrElse0(pp.piralInfo, "dependencies")

HostAllDeps == Spread(HostDeps, OrElse0(pp.piralInfo, "devDependencies"))

HostPilets == getPiletsInfo(pp.piralInfo)

Reconciled == pp.patch.devDependencies

PatchDone == op = "patch" /\ pp.pc = "done"

\* A pilets.devDependencies entry resolves: it is a non-empty string, or the
\* true sentinel and the host's dependencies + devDependencies name a version.
DevEntryResolves(n) ==
  LET v == HostPilets.devDependencies[n]
  IN  \/ v \notin {JsTrue, JsFalse, ""}
      \/ v = JsTrue /\ n \in DOMAIN HostAllDeps

\* A name with no resolvable version, as the fallback law has it.
Unresolvable(n) ==
  \/ n \in DOMAIN HostPilets.devDependencies /\ ~DevEntryResolves(n)
  \/ n \in Range(HostPilets.externals) /\ n \notin DOMAIN HostDeps

\* C3: every dependency name whose version cannot be resolved gets the
\* specifier 'latest' in the reconciled devDependencies, and exactly one
\* warning is emitted for it.
C3_FallbackLaw ==
  PatchDone =>
    \A n \in Range(KeyOrder) :
      Unresolvable(n) => Get(Reconciled, n) = "latest" /\ Count(pp.warnings, n) = 1

\* What each layer gives a key, stated layer by layer.
BaselineValue(k) ==
  IF k \in DOMAIN HostAllDeps THEN HostAllDeps[k] ELSE getDevDependencies(pp.language)[k]

DevEntryValue(k) ==
  LET v == HostPilets.devDependencies[k]
  IN  IF ~DevEntryResolves(k) THEN "latest"
      ELSE IF v = JsTrue THEN HostAllDeps[k] ELSE v

ExternalValue(k) == IF k \in DOMAIN HostDeps THEN HostDeps[k] ELSE "latest"

BaselineKeys == IF pp.language = "none" THEN {} ELSE DOMAIN getDevDependencies(pp.language)

\* The three lower layers: the later layer wins on a collision.
LowerLayersHold ==
  /\ DOMAIN Reconciled =
       BaselineKeys \cup DOMAIN HostPilets.devDependencies \cup Range(HostPilets.externals)
         \cup {pp.name, "piral-cli"}
  /\ \A k \in DOMAIN Reconciled \ {pp.name, "piral-cli"} :
       Reconciled[k] =
         IF k \in Range(HostPilets.externals) THEN ExternalValue(k)
         ELSE IF k \in DOMAIN HostPilets.devDependencies THEN DevEntryValue(k)
         ELSE BaselineValue(k)

\* The end-to-end example of the specification.
ExampleHost ==
  [version |-> "0.9.0", dependencies |-> [k \in {"shared-lib"} |-> "2.1.0"],
   pilets |-> [externals |-> <<"shared-lib">>]]

ExampleHolds ==
  (pp.piralInfo = ExampleHost /\ pp.name = "my-pilet" /\ pp.version = "1.0.0") =>
    Reconciled["shared-lib"] = "2.1.0" /\ pp.patch.peerDependencies["shared-lib"] = "*"

\* C4 as stated: the last layer is name -> version and piral-cli -> ^cliVersion.
C4_LayeringAsStated ==
  PatchDone =>
    /\ LowerLayersHold
    /\ Reconciled[pp.name] = pp.version
    /\ Reconciled["piral-cli"] = Caret(cliVersion)
    /\ ExampleHolds

\* C4: the reconciled devDependencies are the four layers, the later layer
\* winning on a collision; the last layer is name -> version, or the host's
\* version when no version is given, and then piral-cli -> ^cliVersion, which
\* no host or language entry overrides (and which wins over the name entry
\* when the pilet is itself called piral-cli).
C4_Layering ==
  PatchDone =>
    /\ LowerLayersHold
    /\ pp.name # "piral-cli" =>
         Reconciled[pp.name] = IF pp.version # "" THEN pp.version ELSE pp.piralInfo.version
    /\ Reconciled["piral-cli"] = Caret(cliVersion)
    /\ ExampleHolds
    /\ pp.manifest.devDependencies = Reconciled

C4_Witness ==
  /\ PatchDone
  /\ pp.name \in Range(HostPilets.externals)
  /\ "shared-lib" \in DOMAIN HostPilets.devDependencies
  /\ "shared-lib" \in DOMAIN HostDeps
  /\ pp.language = "ts"
  /\ "typescript" \in DOMAIN HostPilets.devDependencies
  /\ "shared-lib" \in Range(HostPilets.externals)
  /\ pp.version = "1.0.0"

\* ------------------------------------------------------------ properties: retrievePiralRoot

ChecksManifest == \E k \in 1..Len(rr.calls) : rr.calls[k][1] = "checkExists"

\* C5 as stated, on the extension of the entry hint.
C5_HintDecides ==
  op = "root" =>
    /\ extname(rr.entry) = HtmlExt =>
         /\ rr.calls = <<>>
         /\ rr.pc = "done" => rr.outcome = "fulfilled" /\ rr.result = join(rr.baseDir, rr.entry)
    /\ (extname(rr.entry) # HtmlExt /\ rr.pc = "done") => ChecksManifest

\* C5: when the path the hint resolves to, join(baseDir, entry), has the
\* extension .html, retrievePiralRoot returns that path and neither checks for
\* nor reads a manifest; in every other case it checks that the manifest
\* exists before it returns or throws anything.
C5_ResolvedPathDecides ==
  op = "root" =>
    /\ extname(join(rr.baseDir, rr.entry)) = HtmlExt =>
         /\ rr.calls = <<>>
         /\ rr.pc = "done" => rr.outcome = "fulfilled" /\ rr.result = join(rr.baseDir, rr.entry)
    /\ (extname(join(rr.baseDir, rr.entry)) # HtmlExt /\ rr.pc = "done") =>
         /\ ChecksManifest
         /\ rr.calls[1][1] = "checkExists"
    /\ extname(rr.entry) = HtmlExt => extname(join(rr.baseDir, rr.entry)) = HtmlExt

C5_Witness ==
  /\ op = "root"
  /\ rr.pc = "done"
  /\ rr.entry = <<"app", "index.html">>
  /\ rr.result = <<"/", "proj", "app", "index.html">>
  /\ rr.exists

\* ------------------------------------------------------------ properties: file sets

PackageDir == <<"/", "work", "node_modules", "sample-piral">>

\* Task i of getFileStats holds the subfiles getFilesOf resolved for it.
Resolved(i) == fx.tasks[i].pc \in {"hashSource", "hashTarget", "done"}

\* The files of the tree below dir: its direct children, or those at any depth.
FilesBelow(dir, deep) ==
  {p \in DOMAIN fx.fs0 :
     /\ Len(p) > Len(dir)
     /\ SubSeq(p, 1, Len(dir)) = dir
     /\ deep \/ Len(p) = Len(dir) + 1}

\* The location a plain string stands for.
AsLocation(file) ==
  IF file.kind = "string"
    THEN [kind |-> "object", from |-> file.path, to |-> file.path, deep |-> FALSE]
    ELSE file

IsDeep(file) == "deep" \in DOMAIN file /\ file.deep

\* C6: for a location whose source is a directory getFilesOf yields, without
\* deep, exactly the files that are direct children of the source directory
\* and, with deep, every file below it, each once, each mapped to the target
\* directory plus its path relative to the source directory; for a source
\* that is a single file it yields the one pair source -> target; a plain
\* string s yields what {from: s, to: s, deep: false} yields.
C6_DirectoryExpansion ==
  op = "files" =>
    \A i \in 1..Len(fx.tasks) :
      Resolved(i) =>
        LET file == AsLocation(fx.files[i])
            src == PackageDir \o file.from
            tgt == root \o file.to
            sub == fx.tasks[i].subfiles
        IN  /\ FilesBelow(src, TRUE) # {} =>
                 /\ {sub[k].sourcePath : k \in 1..Len(sub)} = FilesBelow(src, IsDeep(file))
                 /\ Len(sub) = Cardinality(FilesBelow(src, IsDeep(file)))
                 /\ \A k \in 1..Len(sub) :
                      sub[k].targetPath =
                        tgt \o SubSeq(sub[k].sourcePath, Len(src) + 1, Len(sub[k].sourcePath))
            /\ FilesBelow(src, TRUE) = {} => sub = <<[sourcePath |-> src, targetPath |-> tgt]>>
            /\ sub = getFilesOf(fx.fs0, root, piralName, file)

C6_Witness ==
  /\ op = "files"
  /\ Len(fx.tasks) = 2
  /\ Resolved(1) /\ Resolved(2)
  /\ fx.files[1] = [kind |-> "object", from |-> <<"tpl">>, to |-> <<"out">>]
  /\ Len(fx.tasks[1].subfiles) = 1
  /\ fx.files[2] = [kind |-> "object", from |-> <<"tpl">>, to |-> <<"out">>, deep |-> TRUE]
  /\ Len(fx.tasks[2].subfiles) = 2
  /\ fx.tasks[2].subfiles[2].targetPath = <<"/", "work", "out", "sub", "b.txt">>

\* The source -> target pairs of the declared files, in declaration order.
RECURSIVE PairsFrom(_)
PairsFrom(i) ==
  IF i > Len(fx.files) THEN <<>>
  ELSE getFilesOf(fx.fs0, root, piralName, fx.files[i]) \o PairsFrom(i + 1)

ExpectedPairs == PairsFrom(1)

ContentBefore(p) == IF p \in DOMAIN fx.fs0 THEN fx.fs0[p] ELSE "<missing>"

\* The FileInfo a pair must give.
ExpectedInfo(pair) ==
  [path |-> pair.targetPath,
   hash |-> IF pair.targetPath \in DOMAIN fx.fs0
              THEN <<"sha1", fx.fs0[pair.targetPath]>> ELSE <<Undefined>>,
   changed |-> ContentBefore(pair.sourcePath) # ContentBefore(pair.targetPath)]

BagOfSeq(s) == [x \in Range(s) |-> Count(s, x)]

ExpectedInfos ==
  LET pairs == ExpectedPairs
  IN  [k \in 1..Len(pairs) |-> ExpectedInfo(pairs[k])]

\* C8: under every interleaving of the per-file tasks getFileStats returns only
\* once every task has finished, and what it returns is, as a multiset, one
\* FileInfo per resolved pair with path = target path, hash = target hash
\* (the sentinel for a missing file) and changed = (source hash # target hash).
C8_StatsJoinAll ==
  (op = "files" /\ fx.stats = "fulfilled") =>
    LET expected == ExpectedInfos
    IN  /\ \A i \in 1..Len(fx.tasks) : fx.tasks[i].pc = "done"
        /\ Len(fx.results) = Len(expected)
        /\ BagOfSeq(fx.results) = BagOfSeq(expected)

C8_Witness ==
  /\ op = "files"
  /\ fx.stats = "fulfilled"
  /\ fx.results # ExpectedInfos
  /\ \E k \in 1..Len(fx.results) : fx.results[k].hash = <<Undefined>>
  /\ \E k \in 1..Len(fx.results) : ~fx.results[k].changed

\* The stats pass recorded the target path as changed / as unchanged.
RecordedChanged(t) ==
  \E k \in 1..Len(fx.originalFiles) : fx.originalFiles[k].path = t /\ fx.originalFiles[k].changed

RecordedUnchanged(t) ==
  \E k \in 1..Len(fx.originalFiles) : fx.originalFiles[k].path = t /\ ~fx.originalFiles[k].changed

\* C2 as stated: a target recorded as changed is copied with the caller's
\* policy when that is "no", a target recorded as unchanged with yes.
C2_OverwriteAsStated ==
  op = "files" =>
    \A j \in 1..Len(fx.issued) :
      LET c == fx.issued[j]
      IN  /\ (RecordedChanged(c.targetPath) /\ fx.force = "no") => c.force = "no"
          /\ RecordedUnchanged(c.targetPath) => c.force = "yes"

\* C2: a target that the stats pass recorded as changed, and nowhere as
\* unchanged, is copied with the caller's policy, so with the policy "no" an
\* existing file keeps its content; a target the stats pass recorded as
\* unchanged (in any of its entries) is copied with ForceOverwrite.yes
\* whatever the caller's policy.
C2_OverwriteProtection ==
  op = "files" =>
    /\ \A j \in 1..Len(fx.issued) :
         LET c == fx.issued[j]
         IN  /\ (RecordedChanged(c.targetPath) /\ ~RecordedUnchanged(c.targetPath)) =>
                  c.force = fx.force
             /\ RecordedUnchanged(c.targetPath) => c.force = "yes"
    /\ \A t \in DOMAIN fx.fs0 :
         (fx.force = "no" /\ RecordedChanged(t) /\ ~RecordedUnchanged(t)) => fx.fs[t] = fx.fs0[t]

C2_Witness ==
  /\ op = "files"
  /\ fx.copy = "fulfilled"
  /\ fx.force = "no"
  /\ \E j \in fx.completed, k \in fx.completed :
       /\ RecordedChanged(fx.issued[j].targetPath)
       /\ ~RecordedUnchanged(fx.issued[j].targetPath)
       /\ fx.issued[j].targetPath \in DOMAIN fx.fs0
       /\ fx.issued[j].force = "no"
       /\ RecordedUnchanged(fx.issued[k].targetPath)
       /\ fx.issued[k].force = "yes"

IssuedPairs ==
  [j \in 1..Len(fx.issued) |->
     [sourcePath |-> fx.issued[j].sourcePath, targetPath |-> fx.issued[j].targetPath]]

\* Copies are issued one at a time, in declaration order.
CopiesInOrder ==
  (op = "files" /\ fx.copy # "idle") =>
    LET pairs == ExpectedPairs
    IN  /\ Cardinality(fx.inflight) <= 1
        /\ \A j \in 1..Len(fx.issued) : \A i \in 1..(j - 1) : i \in fx.completed
        /\ Len(fx.issued) <= Len(pairs)
        /\ IssuedPairs = SubSeq(pairs, 1, Len(fx.issued))
        /\ fx.copy = "fulfilled" => Len(fx.issued) = Len(pairs) /\ fx.inflight = {}
        /\ fx.copy = "rejected" => fx.inflight = {}

\* Once the call has rejected nothing is copied and nothing is undone.
NothingAfterFailure ==
  (op = "files" /\ fx'.copy = "rejected") =>
    /\ fx'.issued = fx.issued
    /\ fx'.fs = fx.fs
    /\ fx'.completed = fx.completed

\* C9: copyPiralFiles copies one pair at a time in declaration order, a copy
\* starting only after every earlier one has completed; when a copy or an
\* expansion fails the call rejects, no later copy is ever started and the
\* copies already done stay as they are.
C9_SequentialCopy == [][NothingAfterFailure]_vars /\ []CopiesInOrder

C9_Witness ==
  /\ op = "files"
  /\ fx.copy = "rejected"
  /\ fx.completed # {}
  /\ Len(fx.issued) < Len(ExpectedPairs)
  /\ fx.fs # fx.fs0

====
